---- MODULE Spec2Model ----
(***************************************************************************)
(* Model of real_ranges/ranges.py: the Range value type, its two orderings *)
(* (Range against Range by comparison key, Range against a scalar by      *)
(* "every point of the range"), the overlap predicates and the operators   *)
(* &, |, ^ and ~ at the Range level.                                       *)
(*                                                                         *)
(* The domain is continuous.  It is discretised the usual way: endpoints   *)
(* of ranges are the even integers 0, 2, .., 2*MaxVal, points of the       *)
(* domain are all the integers from -1 to INF-1, so that between any two   *)
(* endpoints, below the least and above the greatest endpoint there is a   *)
(* point that is not an endpoint.  The two unbounded sentinels are the     *)
(* integers INF and -INF, above and below every point.                     *)
(***************************************************************************)
EXTENDS Integers, Sequences, FiniteSets, TLC

VARIABLES a, b, op, res, join, v, lt, gt, isin

vars == <<a, b, op, res, join, v, lt, gt, isin>>

\* Number of finite endpoint values above 0.
MaxVal == 2

\* bases.INF, ordered above every domain value, equal only to itself.
INF == 2 * MaxVal + 2

\* -INF, ordered below every domain value.
NINF == -INF

\* Finite endpoint values.
Fin == {2 * i : i \in 0..MaxVal}

\* Finite domain values (scalars and points of ranges).
Pts == (0 - 1)..(INF - 1)

Bool2Int(x) == IF x THEN 1 ELSE 0

\* Python's < on tuples: decided by the first position where they differ.
TupleLt(s, t) ==
    \E i \in 1..Len(s) : (\A j \in 1..(i - 1) : s[j] = t[j]) /\ s[i] < t[i]

\* Range.__init__: the four slots; _cmp is derived from them (see cmp).
Range(start, end, start_inc, end_inc) ==
    [start |-> start, end |-> end, start_inc |-> start_inc, end_inc |-> end_inc]

\* _cmp = start, not start_inc, end, end_inc
cmp(self) ==
    <<self.start, Bool2Int(~self.start_inc), self.end, Bool2Int(self.end_inc)>>

lower(self) == <<self.start, Bool2Int(self.start_inc)>>

upper(self) == <<self.end, Bool2Int(self.end_inc)>>

\* Range.__lt__ with a Range operand.
Range_lt(self, other) == TupleLt(cmp(self), cmp(other))

Range_lt_scalar_incl(self, value) ==
    self.end < value \/ (self.end = value /\ self.end # INF)

\* Range.__lt__ with a scalar operand.
Range_lt_scalar(self, value) ==
    self.end < value \/ (~self.end_inc /\ self.end = value /\ self.end # INF)

\* Range.__gt__ with a scalar operand.
Range_gt_scalar(self, value) ==
    self.start > value
        \/ (~self.start_inc /\ self.start = value /\ self.start # NINF)

\* Range.__eq__
Range_eq(self, other) == cmp(self) = cmp(other)

\* Range.__contains__
Range_contains(self, value) ==
    \/ (self.start < value /\ value < self.end)
    \/ (self.start = value /\ self.start_inc)
    \/ (self.end = value /\ self.end_inc)

ensure_order_noswap(self, other) == <<self, other>>

\* ensure_order: the operands in the order the wrapped function gets them.
ensure_order(self, other) ==
    IF Range_lt(other, self) THEN <<other, self>> ELSE <<self, other>>

will_join_body(self, other) ==
    Range_contains(self, other.start) \/ Range_contains(other, self.end)

will_join(self, other) ==
    LET p == ensure_order(self, other) IN will_join_body(p[1], p[2])

continues_body(self, other) ==
    self.end_inc # other.start_inc /\ self.end = other.start

continues(self, other) ==
    LET p == ensure_order(self, other) IN continues_body(p[1], p[2])

intersects_body(self, other) ==
    will_join(self, other) /\ ~continues(self, other)

intersects(self, other) ==
    LET p == ensure_order(self, other) IN intersects_body(p[1], p[2])

\* The results of the operators: the empty range, one Range, or the
\* RangeSet built from two ranges (members in the order they are passed).
EMPTY_RANGE == [kind |-> "empty", members |-> <<>>]

One(r) == [kind |-> "range", members |-> <<r>>]

RangeSet(r1, r2) == [kind |-> "set", members |-> <<r1, r2>>]

\* `self.end > other` with `other` a Range: the scalar on the left does not
\* know Range, so Python evaluates the reflected other.__lt__(self.end).
EndAbove(self, other) == Range_lt_scalar(other, self.end)

and_body_nocheck(self, other) ==
    IF EndAbove(self, other) THEN One(other)
    ELSE One(Range(other.start, self.end, other.start_inc, self.end_inc))

and_body(self, other) ==
    IF EndAbove(self, other) THEN One(other)
    ELSE IF ~intersects(self, other) THEN EMPTY_RANGE
    ELSE One(Range(other.start, self.end, other.start_inc, self.end_inc))

\* Range.__and__
Range_and(self, other) ==
    LET p == ensure_order(self, other) IN and_body(p[1], p[2])

or_body(self, other) ==
    IF EndAbove(self, other) THEN One(self)
    ELSE IF ~will_join(self, other) THEN RangeSet(self, other)
    ELSE One(Range(self.start, other.end, self.start_inc, other.end_inc))

\* Range.__or__
Range_or(self, other) ==
    LET p == ensure_order(self, other) IN or_body(p[1], p[2])

xor_body_noreorder(self, other) ==
    IF ~intersects(self, other) THEN Range_or(self, other)
    ELSE IF Range_eq(self, other) THEN EMPTY_RANGE
    ELSE IF lower(self) = lower(other)
        THEN One(Range(self.end, other.end, ~self.end_inc, other.end_inc))
    ELSE IF upper(self) = upper(other)
        THEN One(Range(self.start, other.start, self.start_inc, ~other.start_inc))
    ELSE RangeSet(Range(self.start, other.start, self.start_inc, ~other.start_inc),
                  Range(other.end, self.end, ~other.end_inc, self.end_inc))

xor_body(self, other) ==
    IF ~intersects(self, other) THEN Range_or(self, other)
    ELSE IF Range_eq(self, other) THEN EMPTY_RANGE
    ELSE IF lower(self) = lower(other)
        THEN One(Range(self.end, other.end, ~self.end_inc, other.end_inc))
    ELSE IF upper(self) = upper(other)
        THEN One(Range(self.start, other.start, self.start_inc, ~other.start_inc))
    ELSE LET r1 == Range(self.start, other.start, self.start_inc, ~other.start_inc)
             swap == TupleLt(upper(self), upper(other))
             s2 == IF swap THEN other ELSE self
             o2 == IF swap THEN self ELSE other
             r2 == Range(o2.end, s2.end, ~o2.end_inc, s2.end_inc)
         IN RangeSet(r1, r2)

\* Range.__xor__
Range_xor(self, other) ==
    LET p == ensure_order(self, other) IN xor_body(p[1], p[2])

\* BIG_RANGE = Range(): no bounds given, the defaults start_inc=True,
\* end_inc=False of __init__.
BIG_RANGE == Range(NINF, INF, TRUE, FALSE)

\* Range.__invert__
Range_invert(self) == Range_xor(BIG_RANGE, self)

----------------------------------------------------------------------------
\* A Range that denotes at least one value: start < end, or one closed point.
NonEmpty(r) ==
    r.start < r.end \/ (r.start = r.end /\ r.start_inc /\ r.end_inc)

AllRanges ==
    {Range(s, e, si, ei) : s \in Fin \cup {NINF, INF}, e \in Fin \cup {NINF, INF},
                           si \in BOOLEAN, ei \in BOOLEAN}

\* The ranges a caller constructs: bounded, or unbounded below and/or above.
InputRanges ==
    {r \in AllRanges : NonEmpty(r) /\ r.start # INF /\ r.end # NINF}

NoScalar == NINF

Idle(o) ==
    /\ op' = o
    /\ UNCHANGED <<a, b>>

Init ==
    /\ a \in InputRanges
    /\ b \in InputRanges
    /\ op = "init"
    /\ res = EMPTY_RANGE
    /\ join = FALSE
    /\ v = NoScalar
    /\ lt = FALSE
    /\ gt = FALSE
    /\ isin = FALSE

NoCompare ==
    /\ v' = NoScalar
    /\ lt' = FALSE
    /\ gt' = FALSE
    /\ isin' = FALSE

\* a & b
DoAnd ==
    /\ Idle("and")
    /\ res' = Range_and(a, b)
    /\ join' = FALSE
    /\ NoCompare

\* a | b
DoOr ==
    /\ Idle("or")
    /\ res' = Range_or(a, b)
    /\ join' = FALSE
    /\ NoCompare

\* a ^ b
DoXor ==
    /\ Idle("xor")
    /\ res' = Range_xor(a, b)
    /\ join' = FALSE
    /\ NoCompare

\* ~a
DoInvert ==
    /\ Idle("invert")
    /\ res' = Range_invert(a)
    /\ join' = FALSE
    /\ NoCompare

\* a.will_join(b)
DoWillJoin ==
    /\ Idle("will_join")
    /\ res' = EMPTY_RANGE
    /\ join' = will_join(a, b)
    /\ NoCompare

\* a < value, a > value, value in a
DoCompare ==
    /\ Idle("compare")
    /\ res' = EMPTY_RANGE
    /\ join' = FALSE
    /\ \E value \in Pts :
        /\ v' = value
        /\ lt' = Range_lt_scalar(a, value)
        /\ gt' = Range_gt_scalar(a, value)
        /\ isin' = Range_contains(a, value)

\* The caller goes on with a Range an operator returned (directly or as a
\* member of the RangeSet) as the left operand.
TakeLeft ==
    /\ res.kind \in {"range", "set"}
    /\ \E i \in 1..Len(res.members) : a' = res.members[i]
    /\ op' = "take"
    /\ UNCHANGED <<b, res, join, v, lt, gt, isin>>

\* The same, as the right operand.
TakeRight ==
    /\ res.kind \in {"range", "set"}
    /\ \E i \in 1..Len(res.members) : b' = res.members[i]
    /\ op' = "take"
    /\ UNCHANGED <<a, res, join, v, lt, gt, isin>>

Next ==
    \/ DoAnd
    \/ DoOr
    \/ DoXor
    \/ DoInvert
    \/ DoWillJoin
    \/ DoCompare
    \/ TakeLeft
    \/ TakeRight

Spec == Init /\ [][Next]_vars

----------------------------------------------------------------------------
\* The points of the domain a Range / a result denotes.
Points(r) == {p \in Pts : Range_contains(r, p)}

ResPoints(x) == UNION {Points(x.members[i]) : i \in 1..Len(x.members)}

\* A set of points with no gap.
Contiguous(S) ==
    \A p \in S, q \in S : \A m \in Pts : (p < m /\ m < q) => m \in S

\* A non-empty Range in the sense of the claims: it denotes a domain value.
Proper(r) == NonEmpty(r) /\ Points(r) # {}

SymDiff(S, T) == (S \ T) \cup (T \ S)

\* The operand whose lower bound comes first / whose upper bound comes last.
FirstLower(x, y) ==
    IF x.start < y.start \/ (x.start = y.start /\ x.start_inc) THEN x ELSE y

LastLower(x, y) == IF FirstLower(x, y) = x THEN y ELSE x

LastUpper(x, y) ==
    IF x.end > y.end \/ (x.end = y.end /\ x.end_inc) THEN x ELSE y

FirstUpper(x, y) == IF LastUpper(x, y) = x THEN y ELSE x

\* C1: for every non-empty range A, whatever its inclusivity, A ^ A is the
\* empty range.
C1_XorSelfIsEmpty ==
    (op = "xor" /\ Proper(a) /\ a = b) => res = EMPTY_RANGE

C4_XorOfOverlapping ==
    (op = "xor" /\ Proper(a) /\ Proper(b) /\ a # b
                /\ Points(a) \cap Points(b) # {}) =>
        LET left == Range(FirstLower(a, b).start, LastLower(a, b).start,
                          FirstLower(a, b).start_inc, ~LastLower(a, b).start_inc)
            right == Range(FirstUpper(a, b).end, LastUpper(a, b).end,
                           ~FirstUpper(a, b).end_inc, LastUpper(a, b).end_inc)
        IN /\ ResPoints(res) = SymDiff(Points(a), Points(b))
           /\ res = IF lower(a) = lower(b) THEN One(right)
                    ELSE IF upper(a) = upper(b) THEN One(left)
                    ELSE RangeSet(left, right)

C4_Witness ==
    /\ op = "xor" /\ a # b /\ res.kind = "set"
    /\ a.start < b.start /\ b.end < a.end
    /\ ResPoints(res) = SymDiff(Points(a), Points(b))

OneSided(r) == (r.start = NINF) # (r.end = INF)

TwoFinite(r) == r.start \in Fin /\ r.end \in Fin

\* C5: ~A of a range with two finite bounds is the RangeSet of everything
\* below A (ending at A.start, inclusivity not A.start_inc) and everything
\* above A (starting at A.end, inclusivity not A.end_inc); ~A of a range
\* unbounded on exactly one side, with either inclusivity flag on that
\* side, is a single Range.
C5_InvertShape ==
    (op = "invert" /\ Proper(a)) =>
        /\ TwoFinite(a) =>
              /\ res.kind = "set"
              /\ res.members[1].start = NINF
              /\ res.members[1].end = a.start
              /\ res.members[1].end_inc = ~a.start_inc
              /\ res.members[2].start = a.end
              /\ res.members[2].start_inc = ~a.end_inc
              /\ res.members[2].end = INF
              /\ ResPoints(res) = Pts \ Points(a)
        /\ OneSided(a) => res.kind = "range"

\* C6: |, & and ^ give equal results in both operand orders.
C6_Commutative ==
    Proper(a) /\ Proper(b) =>
        /\ op = "or" => res = Range_or(b, a)
        /\ op = "and" => res = Range_and(b, a)
        /\ op = "xor" => res = Range_xor(b, a)

C6_Witness ==
    /\ op = "xor" /\ res.kind = "set" /\ Range_lt(b, a)
    /\ a.start = b.start /\ a.start_inc # b.start_inc
    /\ res = Range_xor(b, a)

\* C7: R < v iff every point of R is below v, R > v iff every point of R
\* is above v, so exactly one of R < v, v in R, R > v holds; a range
\* unbounded above is never less than v, one unbounded below never greater.
C7_ScalarOrder ==
    (op = "compare" /\ Proper(a)) =>
        /\ lt <=> \A p \in Points(a) : p < v
        /\ gt <=> \A p \in Points(a) : p > v
        /\ (lt \/ isin \/ gt)
        /\ ~(lt /\ isin) /\ ~(lt /\ gt) /\ ~(isin /\ gt)
        /\ a.end = INF => ~lt
        /\ a.start = NINF => ~gt

C7_Witness ==
    /\ op = "compare" /\ lt /\ ~gt /\ ~isin
    /\ a.end = v /\ ~a.end_inc /\ Points(a) # {}

\* C8: will_join(A, B) is true iff the union of the points of A and B is a
\* single contiguous range, in either order and also for A = B.
C8_WillJoinIsContiguous ==
    (op = "will_join" /\ Proper(a) /\ Proper(b)) =>
        (join <=> Contiguous(Points(a) \cup Points(b)))

C10_BuiltRangesNonEmpty ==
    /\ NonEmpty(a)
    /\ NonEmpty(b)
    /\ \A i \in 1..Len(res.members) : NonEmpty(res.members[i])

C10_Witness ==
    /\ op = "xor" /\ res.kind = "set"
    /\ a \notin InputRanges /\ b.start = NINF /\ b.end \in Fin
    /\ \A i \in 1..2 : NonEmpty(res.members[i])

====
